---------------------------- MODULE Spec2Model ----------------------------
(***************************************************************************)
(* Model of drivers/gpu/drm/panel/panel-lg-sw49410-rev1.c: the LG SW49410  *)
(* MIPI-DSI panel driver.                                                  *)
(*                                                                         *)
(* The state is struct panel_info (prepared, enabled, first_enable,        *)
(* brightness) together with the hardware the driver drives through its    *)
(* leaf interfaces: the reset GPIO, the regulator (outstanding enables and *)
(* last load set), the selected pin-control state and the backlight        *)
(* properties.  Every C function is an operator on a context record; it    *)
(* logs every leaf call it makes, with its arguments and its return value, *)
(* in the trace of the call.                                               *)
(*                                                                         *)
(* A leaf call that can fail (regulator, pinctrl, DSI) takes its return    *)
(* value from the fault plan f of the call: the f.at-th fallible leaf call *)
(* of the handler returns f.err, every other one succeeds.  Of a call in  *)
(* flight the fault is drawn at the step of the leaf call it strikes.      *)
(*                                                                         *)
(* The driver takes no lock.  A function that sleeps (lg_panel_prepare,    *)
(* lg_panel_power_on, panel_reset_at_beginning, send_mipi_cmds) is         *)
(* therefore not one step: its call is one step, every leaf call it makes  *)
(* is one step, and its return is one step (the variable run holds the     *)
(* call in flight).  Between any two of these steps the backlight core     *)
(* may enter update_status or get_brightness, any number of times.  The    *)
(* panel callbacks and the probe and remove paths are entered by the DRM   *)
(* framework and the driver core one at a time: none of them starts while  *)
(* a call is in flight.  The functions that do not sleep are one step.     *)
(***************************************************************************)
EXTENDS Integers, Sequences, FiniteSets, TLC

VARIABLES
    prepared,       \* pinfo->prepared
    enabled,        \* pinfo->enabled
    first_enable,   \* pinfo->first_enable
    brightness,     \* pinfo->brightness
    reset_gpio,     \* last value driven on pinfo->reset_gpio
    enable_count,   \* outstanding regulator_bulk_enable()s of pinfo->supplies
    load,           \* last load accepted by regulator_set_load()
    pin,            \* selected pin-control state: "default", "active", "suspend"
    props,          \* bl->props of the registered backlight device
    powered,        \* history: lg_panel_power_on() has returned 0 and no
                    \* lg_panel_power_off() has run since
    registered,     \* the panel of the struct panel_info the driver data
                    \* points at is on the DRM panel list (drm_panel_add())
    stale,          \* panels on the DRM panel list whose struct panel_info
                    \* a later panel_probe() has replaced: a panel_probe()
                    \* that failed after drm_panel_add() left them there
    bound,          \* panel_probe() has returned 0, panel_remove() has not run
    handles,        \* the resource handles stored in struct panel_info
    n_prepare,      \* history: number of lg_panel_prepare() calls made
    n_reset,        \* history: number of panel_reset_at_beginning() runs
    run,            \* the call of a sleeping function that is in flight
    last            \* the last call that returned (or was entered): its
                    \* name, argument, return value, trace

vars == <<prepared, enabled, first_enable, brightness, reset_gpio,
          enable_count, load, pin, props, powered, registered, bound,
          stale, handles, n_prepare, n_reset, run, last>>

---------------------------------------------------------------------------
(* Bounds of the model *)

\* lg_panel_prepare() is called at most this many times in a behaviour
MaxPrepare == 2

\* longest command table (entries before the terminator) handed to
\* send_mipi_cmds() by the batch specification
MaxBatchLen == 3

---------------------------------------------------------------------------
(* Program constants *)

EFAULT == 14

FB_BLANK_UNBLANK == 0

BL_CORE_FBBLANK == 2

init_delay_us == 5000

max_brightness == 255

NumSupplies == 1

regulator_enable_loads == <<1700000>>

regulator_disable_loads == <<100>>

ENOMEM == 12

\* negative errno values a failing leaf call returns (-EIO, -ETIMEDOUT)
ErrVals == {-5, -110}

\* fault plans of one handler call reaching at most n fallible leaf calls:
\* at = 0 is the fault-free call
NoFault == [at |-> 0, err |-> 0]

FaultPlans(n) == {NoFault} \cup [at : 1..n, err : ErrVals]

---------------------------------------------------------------------------
(* The context a handler runs on, and the leaf interfaces *)

\* one logged leaf call: its name, up to two integer arguments, the bytes
\* handed to it, and its return value
Ev(op, a, b, data, ret) ==
    [op |-> op, a |-> a, b |-> b, data |-> data, ret |-> ret]

\* ret : return value of the last call made; tr : leaf calls so far;
\* n : fallible leaf calls so far; cold : a DCS write was issued while no
\* lg_panel_power_on() had ever completed; po : enable_count seen at each
\* entry of lg_panel_power_on(); resets : panel_reset_at_beginning() runs;
\* oob : the bytes the reads behind entries of len 1 yield, in order;
\* starved : such a read found oob empty; budget : the number of leaf
\* calls the function is let to make (-1: all of them); halt : the
\* function has reached a leaf call beyond its budget and stands there
Ctx ==
    [prepared |-> prepared, enabled |-> enabled,
     first_enable |-> first_enable, brightness |-> brightness,
     reset_gpio |-> reset_gpio, enable_count |-> enable_count,
     load |-> load, pin |-> pin, props |-> props, powered |-> powered,
     registered |-> registered, stale |-> stale, bound |-> bound,
     handles |-> handles,
     ret |-> 0, tr |-> <<>>, n |-> 0, cold |-> FALSE, po |-> <<>>,
     resets |-> n_reset, oob |-> <<>>, starved |-> FALSE,
     budget |-> -1, halt |-> FALSE]

\* what a call that returns a pointer can yield: an object, NULL, or an
\* errno value encoded by ERR_PTR()
Valid == [kind |-> "valid", err |-> 0]

Null == [kind |-> "null", err |-> 0]

ErrPtr(e) == [kind |-> "err", err |-> e]

IS_ERR(p) == p.kind = "err"

IS_ERR_OR_NULL(p) == p.kind \in {"err", "null"}

\* PTR_ERR(p) as the code uses it, on an error pointer or on NULL: the
\* pointer value as a long, 0 for NULL
PTR_ERR(p) == IF p.kind = "err" THEN p.err ELSE 0

\* return value of the next fallible leaf call under fault plan f
LeafRet(c, f) == IF c.n + 1 = f.at THEN f.err ELSE 0

\* the function stands before a leaf call it is not let to make yet
Skip(c) == c.halt \/ (c.budget >= 0 /\ Len(c.tr) >= c.budget)

\* a leaf call: made (d is the context after it) unless the function
\* stands; a function that stands makes no further call
Leaf(c, d) == IF Skip(c) THEN [c EXCEPT !.halt = TRUE, !.ret = 0] ELSE d

\* a statement behind a leaf call: executed (d) unless the function
\* stands before that call
Then(c, d) == IF c.halt THEN c ELSE d

\* a leaf call that cannot fail
Infallible(c, op, a, b) ==
    Leaf(c, [c EXCEPT !.tr = Append(@, Ev(op, a, b, <<>>, 0))])

gpiod_set_value(c, v) ==
    Leaf(c, [c EXCEPT !.tr = Append(@, Ev("gpiod_set_value", v, 0, <<>>, 0)),
                      !.reset_gpio = v])

regulator_set_load(c, f, ua) ==
    LET r == LeafRet(c, f) IN
    Leaf(c, [c EXCEPT !.n = @ + 1, !.ret = r,
                      !.tr = Append(@, Ev("regulator_set_load", ua, 0, <<>>, r)),
                      !.load = IF r = 0 THEN ua ELSE @])

regulator_bulk_enable(c, f) ==
    LET r == LeafRet(c, f) IN
    Leaf(c, [c EXCEPT !.n = @ + 1, !.ret = r,
                      !.tr = Append(@, Ev("regulator_bulk_enable", NumSupplies, 0, <<>>, r)),
                      !.enable_count = IF r = 0 THEN @ + 1 ELSE @])

regulator_bulk_disable(c, f) ==
    LET r == LeafRet(c, f) IN
    Leaf(c, [c EXCEPT !.n = @ + 1, !.ret = r,
                      !.tr = Append(@, Ev("regulator_bulk_disable", NumSupplies, 0, <<>>, r)),
                      !.enable_count = IF r = 0 /\ @ > 0 THEN @ - 1 ELSE @])

pinctrl_select_state(c, f, state) ==
    LET r == LeafRet(c, f) IN
    Leaf(c, [c EXCEPT !.n = @ + 1, !.ret = r,
                      !.tr = Append(@, Ev("pinctrl_select_state",
                                  IF state = "active" THEN 1 ELSE 0, 0, <<>>, r)),
                      !.pin = IF r = 0 THEN state ELSE @])

\* one call on the DSI command channel, logged with its arguments:
\* a, b the integer arguments and data the bytes handed over
dsi_write(c, f, op, a, b, data) ==
    LET r == LeafRet(c, f) IN
    Leaf(c, [c EXCEPT !.n = @ + 1, !.ret = r,
                      !.tr = Append(@, Ev(op, a, b, data, r)),
                      !.cold = @ \/ ~c.powered])

\* mipi_dsi_dcs_write(dsi, cmd, data, len): the first len bytes of data
mipi_dsi_dcs_write(c, f, cmd, data, len) ==
    dsi_write(c, f, "mipi_dsi_dcs_write", cmd, len, SubSeq(data, 1, len))

\* mipi_dsi_dcs_write_buffer(dsi, d, ARRAY_SIZE(d))
mipi_dsi_dcs_write_buffer(c, f, d) ==
    dsi_write(c, f, "mipi_dsi_dcs_write_buffer", 0, Len(d), d)

mipi_dsi_dcs_set_tear_on(c, f, mode) ==
    dsi_write(c, f, "mipi_dsi_dcs_set_tear_on", mode, 0, <<>>)

mipi_dsi_dcs_set_page_address(c, f, start, end) ==
    dsi_write(c, f, "mipi_dsi_dcs_set_page_address", start, end, <<>>)

mipi_dsi_dcs_set_display_brightness(c, f, value) ==
    dsi_write(c, f, "mipi_dsi_dcs_set_display_brightness", value, 0, <<>>)

mipi_dsi_dcs_exit_sleep_mode(c, f) ==
    dsi_write(c, f, "mipi_dsi_dcs_exit_sleep_mode", 0, 0, <<>>)

mipi_dsi_dcs_set_display_on(c, f) ==
    dsi_write(c, f, "mipi_dsi_dcs_set_display_on", 0, 0, <<>>)

\* mipi_dsi_dcs_get_display_brightness(dsi, &brightness): on success the
\* 16-bit value v the panel reports is stored; it is logged as argument a
mipi_dsi_dcs_get_display_brightness(c, f, v) ==
    LET r == LeafRet(c, f) IN
    Leaf(c, [c EXCEPT !.n = @ + 1, !.ret = r,
                      !.tr = Append(@, Ev("mipi_dsi_dcs_get_display_brightness",
                                  IF r < 0 THEN 0 ELSE v, 0, <<>>, r))])

\* the names of the calls that put a DCS command on the command channel
DcsOps ==
    {"mipi_dsi_dcs_write", "mipi_dsi_dcs_write_buffer",
     "mipi_dsi_dcs_set_tear_on", "mipi_dsi_dcs_set_page_address",
     "mipi_dsi_dcs_set_display_brightness", "mipi_dsi_dcs_exit_sleep_mode",
     "mipi_dsi_dcs_set_display_on"}

---------------------------------------------------------------------------
(* The backlight update and the sleeps *)

\* bl->props.state & BL_CORE_FBBLANK
core_fbblank(state) == (state \div BL_CORE_FBBLANK) % 2 = 1

\* mutant of effective_brightness: the BL_CORE_FBBLANK flag is not tested
effective_brightness_no_flag(p) ==
    IF p.power # FB_BLANK_UNBLANK \/ p.fb_blank # FB_BLANK_UNBLANK
    THEN 0
    ELSE p.brightness

\* the brightness lg_panel_backlight_update_status() stores and sends
effective_brightness(p) ==
    IF \/ p.power # FB_BLANK_UNBLANK
       \/ p.fb_blank # FB_BLANK_UNBLANK
       \/ core_fbblank(p.state)
    THEN 0
    ELSE p.brightness

\* mutant of lg_panel_backlight_update_status: the maximum is sent in
\* place of the requested brightness when the backlight is not blanked
update_status_max(c, f) ==
    LET c1 == [c EXCEPT !.brightness =
                   IF effective_brightness(c.props) = 0 THEN 0
                   ELSE max_brightness] IN
    mipi_dsi_dcs_set_display_brightness(c1, f, c1.brightness)

lg_panel_backlight_update_status(c, f) ==
    LET c1 == [c EXCEPT !.brightness = effective_brightness(c.props)] IN
    mipi_dsi_dcs_set_display_brightness(c1, f, c1.brightness)

\* the sleeps: leaf calls that cannot fail
usleep_range(c, min, max) == Infallible(c, "usleep_range", min, max)

msleep(c, ms) == Infallible(c, "msleep", ms, 0)

---------------------------------------------------------------------------
(* PowerSequencer *)

\* for (i = 0; i < ARRAY_SIZE(pinfo->supplies); i++) regulator_set_load(),
\* returning at the first non-zero result
RECURSIVE set_loads(_, _, _, _)
set_loads(c, f, loads, i) ==
    IF i > NumSupplies THEN [c EXCEPT !.ret = 0]
    ELSE LET c1 == regulator_set_load(c, f, loads[i]) IN
         IF c1.ret # 0 THEN c1 ELSE set_loads(c1, f, loads, i + 1)

\* mutant of panel_reset_at_beginning: a failed bulk enable does not end
\* the sequence
panel_reset_at_beginning_enable_unchecked(c0, f) ==
    LET c  == Then(c0, [c0 EXCEPT !.resets = @ + 1])
        c1 == set_loads(c, f, regulator_enable_loads, 1)
    IN
    IF c1.ret # 0 THEN c1 ELSE
    LET c2 == regulator_bulk_enable(c1, f)
        c3 == set_loads(c2, f, regulator_disable_loads, 1) IN
    IF c3.ret # 0 THEN c3 ELSE
    LET c4 == regulator_bulk_disable(c3, f) IN
    IF c4.ret < 0 THEN c4 ELSE
    usleep_range(gpiod_set_value(
        usleep_range(gpiod_set_value(
            usleep_range(gpiod_set_value(c4, 1), 30000, 10000),
            0), 30000, 2000),
        1), 30000, 10000)

\* the reset pulse: high, low, high with a sleep after each edge
reset_pulse(c) ==
    LET c1 == usleep_range(gpiod_set_value(c, 1), 30000, 10000)
        c2 == usleep_range(gpiod_set_value(c1, 0), 30000, 2000)
    IN  usleep_range(gpiod_set_value(c2, 1), 30000, 10000)

panel_reset_at_beginning(c0, f) ==
    LET c  == Then(c0, [c0 EXCEPT !.resets = @ + 1])
        c1 == set_loads(c, f, regulator_enable_loads, 1)
    IN
    IF c1.ret # 0 THEN c1 ELSE
    LET c2 == regulator_bulk_enable(c1, f) IN
    IF c2.ret < 0 THEN c2 ELSE
    LET c3 == set_loads(c2, f, regulator_disable_loads, 1) IN
    IF c3.ret # 0 THEN c3 ELSE
    LET c4 == regulator_bulk_disable(c3, f) IN
    IF c4.ret < 0 THEN c4 ELSE
    [reset_pulse(c4) EXCEPT !.ret = 0]

panel_set_pinctrl_state(c, f, enable) ==
    pinctrl_select_state(c, f, IF enable THEN "active" ELSE "suspend")

\* mutant of lg_panel_power_on: the result of the pin-state selection is
\* not tested
lg_panel_power_on_pin_unchecked(c0, f) ==
    LET c  == Then(c0, [c0 EXCEPT !.po = Append(@, c0.enable_count)])
        c1 == set_loads(c, f, regulator_enable_loads, 1)
    IN
    IF c1.ret # 0 THEN c1 ELSE
    LET c2 == regulator_bulk_enable(c1, f) IN
    IF c2.ret < 0 THEN c2 ELSE
    LET c3 == panel_set_pinctrl_state(c2, f, TRUE)
        c4 == reset_pulse(c3) IN
    Then(c4, [c4 EXCEPT !.ret = 0, !.powered = TRUE])

lg_panel_power_on(c0, f) ==
    LET c  == Then(c0, [c0 EXCEPT !.po = Append(@, c0.enable_count)])
        c1 == set_loads(c, f, regulator_enable_loads, 1)
    IN
    IF c1.ret # 0 THEN c1 ELSE
    LET c2 == regulator_bulk_enable(c1, f) IN
    IF c2.ret < 0 THEN c2 ELSE
    LET c3 == panel_set_pinctrl_state(c2, f, TRUE) IN
    IF c3.ret # 0 THEN c3 ELSE
    LET c4 == reset_pulse(c3) IN
    Then(c4, [c4 EXCEPT !.ret = 0, !.powered = TRUE])

\* mutant of lg_panel_power_off: the reset line is pulsed low then high
lg_panel_power_off_pulse(c0, f) ==
    LET g  == gpiod_set_value(gpiod_set_value(c0, 0), 1)
        c  == Then(g, [g EXCEPT !.powered = FALSE])
        c1 == panel_set_pinctrl_state(c, f, FALSE)
    IN
    IF c1.ret # 0 THEN c1 ELSE
    LET c2 == set_loads(c1, f, regulator_disable_loads, 1) IN
    IF c2.ret # 0 THEN c2 ELSE
    regulator_bulk_disable(c2, f)

\* reset is driven low first; a failed pin-state selection or load setting
\* returns at once, the result of the bulk disable is returned as it is
lg_panel_power_off(c0, f) ==
    LET g  == gpiod_set_value(c0, 0)
        c  == Then(g, [g EXCEPT !.powered = FALSE])
        c1 == panel_set_pinctrl_state(c, f, FALSE)
    IN
    IF c1.ret # 0 THEN c1 ELSE
    LET c2 == set_loads(c1, f, regulator_disable_loads, 1) IN
    IF c2.ret # 0 THEN c2 ELSE
    regulator_bulk_disable(c2, f)

---------------------------------------------------------------------------
(* CommandBatch engine *)

\* struct panel_cmd: the bytes of .data, .len being their number; the
\* terminator {} has len 0
cmd_len(cmd) == Len(cmd)

Sentinel == <<>>

\* the usleep_range() after the write of entry cmd, from its first byte
cmd_delay(c, cmd) == usleep_range(c, cmd[1] * 1000, (1 + cmd[1]) * 1000)

\* cmd->data[1]: the address byte; in an entry of len 1 the read lies
\* behind the array and yields whatever byte the memory holds there, a
\* byte of its own for every such entry: the next one of c.oob
cmd_address(c, cmd) ==
    IF cmd_len(cmd) >= 2 THEN cmd[2]
    ELSE IF c.oob = <<>> THEN 0 ELSE Head(c.oob)

\* the write of one entry: address only when len == 2; otherwise the
\* bytes behind the address and the size_t cmd->len - 2, which for len 1
\* wraps to SIZE_MAX and is written here as -1
cmd_write(c, f, cmd) ==
    LET c1 == IF cmd_len(cmd) >= 2 \/ Skip(c) THEN c
              ELSE IF c.oob = <<>> THEN [c EXCEPT !.starved = TRUE]
              ELSE [c EXCEPT !.oob = Tail(@)]
    IN
    IF cmd_len(cmd) = 2
    THEN mipi_dsi_dcs_write(c1, f, cmd_address(c, cmd), <<>>, 0)
    ELSE mipi_dsi_dcs_write(c1, f, cmd_address(c, cmd),
                            SubSeq(cmd, 3, Len(cmd)), cmd_len(cmd) - 2)

\* mutant of send_loop: the delay of an entry is slept before its write
RECURSIVE send_loop_delay_first(_, _, _, _)
send_loop_delay_first(c, f, cmds, i) ==
    IF cmd_len(cmds[i]) = 0 THEN [c EXCEPT !.ret = 0]
    ELSE LET c1 == cmd_write(cmd_delay(c, cmds[i]), f, cmds[i]) IN
         IF c1.ret < 0 THEN c1
         ELSE send_loop_delay_first(c1, f, cmds, i + 1)

\* for (i = 0; cmds[i].len != 0; i++) { write; if (err < 0) return err; sleep }
RECURSIVE send_loop(_, _, _, _)
send_loop(c, f, cmds, i) ==
    IF cmd_len(cmds[i]) = 0 THEN [c EXCEPT !.ret = 0]
    ELSE LET c1 == cmd_write(c, f, cmds[i]) IN
         IF c1.ret < 0 THEN c1
         ELSE send_loop(cmd_delay(c1, cmds[i]), f, cmds, i + 1)

\* a command table is [null |-> whether the pointer is NULL, e |-> entries]
Table(entries) == [null |-> FALSE, e |-> entries]

NullTable == [null |-> TRUE, e |-> <<>>]

\* mutant of send_mipi_cmds: a failed write is reported as -EFAULT
send_mipi_cmds_generic(c, f, cmds) ==
    IF cmds.null THEN [c EXCEPT !.ret = -EFAULT]
    ELSE LET c1 == send_loop(c, f, cmds.e, 1) IN
         IF c1.ret < 0 THEN [c1 EXCEPT !.ret = -EFAULT] ELSE c1

send_mipi_cmds(c, f, cmds) ==
    IF cmds.null THEN [c EXCEPT !.ret = -EFAULT]
    ELSE send_loop(c, f, cmds.e, 1)

---------------------------------------------------------------------------
(* PanelDescriptor: the command tables of lg_panel_desc *)

lg_sw49410_rev1_on_cmds_1 ==
    Table(<< <<0, 38, 2>>,
             <<0, 53, 0>>,
             <<0, 83, 12, 48>>,
             <<0, 85, 0, 112, 223, 0, 112, 223>>,
             <<0, 247, 1, 73, 12>>,
             Sentinel >>)

lg_sw49410_rev1_on_cmds_2 ==
    Table(<< <<0, 176, 172>>,
             <<0, 205, 0, 0, 0, 25, 25, 25, 25, 25, 25, 25, 25, 25, 25, 25,
               25, 25, 22, 22>>,
             <<0, 203, 128, 92, 7, 3, 40>>,
             <<0, 192, 2, 2, 15>>,
             <<0, 229, 0, 58, 0, 58, 0, 14, 16>>,
             <<0, 181, 117, 96, 45, 93, 128, 0, 10, 11, 0, 5, 11, 0, 128, 13,
               14, 64, 0, 12, 0, 22, 0, 184, 0, 128, 13, 14, 64, 0, 12, 0,
               22, 0, 184, 0, 129, 0, 3, 3, 3, 1, 1>>,
             <<0, 85, 4, 97, 219, 4, 112, 219>>,
             <<0, 176, 202>>,
             Sentinel >>)

lg_panel_desc ==
    [on_cmds_1 |-> lg_sw49410_rev1_on_cmds_1,
     on_cmds_2 |-> lg_sw49410_rev1_on_cmds_2]

---------------------------------------------------------------------------
(* PanelLifecycle *)

\* the buffers of the dsi_dcs_write_seq() calls of lg_panel_prepare() that
\* precede mipi_dsi_dcs_exit_sleep_mode(), in program order
init_write_seqs ==
  <<
    <<83, 44>>,
    <<94, 0>>,
    <<85, 129>>,
    <<176, 172>>,
    <<179, 4, 4, 40, 8, 90, 18, 35, 2>>,
    <<180, 17, 4, 2, 2, 2, 2, 2, 1, 1, 1, 1, 1, 1, 208, 228, 228, 228, 147,
      78, 57, 10, 16, 24, 37, 36, 0, 0, 0, 0, 0, 0>>,
    <<181, 46, 15, 16, 192, 0, 16, 192, 0>>,
    <<182, 3, 5, 11, 179, 48>>,
    <<184, 87, 2, 144, 64, 93, 208, 5, 0, 0, 24, 34, 4, 1, 2, 144, 64, 76,
      192, 4, 0, 0, 24, 34, 4, 1, 8, 0, 58, 134, 131, 0>>,
    <<185, 100, 100, 42, 63, 238>>,
    <<186, 61, 31, 1, 255, 1, 60, 31, 1, 255, 1, 0>>,
    <<188, 0, 0, 0, 144>>,
    <<189, 0, 0>>,
    <<191, 79, 2>>,
    <<192, 0, 4, 24, 7, 17, 17, 60, 0, 10, 10>>,
    <<193, 1, 0, 240, 194, 207, 12>>,
    <<194, 204, 68, 68, 32, 34, 38, 33, 0>>,
    <<195, 146, 17, 9, 9, 17, 204, 2, 2, 164, 164, 2, 162, 56, 40, 20, 64,
      56, 192>>,
    <<196, 38, 0>>,
    <<201, 5, 93, 3, 4, 0>>,
    <<202, 155, 16>>,
    <<203, 243, 144, 61, 48, 204>>,
    <<204, 0, 64, 80, 144, 65>>,
    <<206, 0, 0>>,
    <<208, 18, 5, 32, 27, 44, 40, 63, 61, 79, 79, 102, 102, 110, 110, 118,
      118, 128, 128, 136, 136, 149, 149, 63, 63, 162, 162, 148, 148, 139,
      139, 129, 129, 117, 117, 102, 102, 71, 71, 45, 45, 0, 1, 18, 5, 32, 27,
      44, 40, 63, 61, 79, 79, 102, 102, 110, 110, 118, 118, 128, 128, 136,
      136, 149, 149, 63, 63, 162, 162, 148, 148, 139, 139, 129, 129, 117,
      117, 102, 102, 71, 71, 45, 45, 0, 1, 18, 5, 32, 27, 44, 40, 63, 61, 79,
      79, 102, 102, 110, 110, 118, 118, 128, 128, 136, 136, 149, 149, 63, 63,
      162, 162, 148, 148, 139, 139, 129, 129, 117, 117, 102, 102, 71, 71, 45,
      45, 0, 1, 18, 5, 32, 27, 44, 40, 63, 61, 79, 79, 102, 102, 110, 110,
      118, 118, 128, 128, 136, 136, 148, 148, 63, 63, 164, 164, 149, 149,
      139, 139, 129, 129, 117, 117, 102, 102, 71, 71, 45, 45, 0, 1>>,
    <<209, 18, 5, 32, 27, 46, 41, 65, 63, 82, 82, 106, 106, 114, 114, 122,
      122, 132, 132, 140, 140, 154, 154, 63, 63, 155, 155, 141, 141, 132,
      132, 122, 122, 110, 110, 95, 95, 65, 65, 42, 42, 0, 1, 18, 5, 32, 27,
      46, 41, 65, 63, 82, 82, 106, 106, 114, 114, 122, 122, 132, 132, 140,
      140, 154, 154, 63, 63, 155, 155, 141, 141, 132, 132, 122, 122, 110,
      110, 95, 95, 65, 65, 42, 42, 0, 1, 18, 5, 32, 27, 46, 41, 65, 63, 82,
      82, 106, 106, 114, 114, 122, 122, 132, 132, 140, 140, 154, 154, 63, 63,
      155, 155, 141, 141, 132, 132, 122, 122, 110, 110, 95, 95, 65, 65, 42,
      42, 0, 1, 18, 5, 32, 27, 46, 41, 65, 63, 82, 82, 106, 106, 114, 114,
      122, 122, 132, 132, 140, 140, 154, 154, 63, 63, 155, 155, 141, 141,
      132, 132, 122, 122, 110, 110, 95, 95, 65, 65, 42, 42, 0, 1>>,
    <<210, 18, 5, 32, 27, 47, 42, 67, 65, 85, 85, 110, 110, 118, 118, 126,
      126, 136, 136, 144, 144, 159, 159, 63, 63, 149, 149, 134, 134, 125,
      125, 116, 116, 104, 104, 89, 89, 60, 60, 38, 38, 0, 1, 18, 5, 32, 27,
      47, 42, 67, 65, 85, 85, 110, 110, 118, 118, 126, 126, 136, 136, 144,
      144, 159, 159, 63, 63, 149, 149, 134, 134, 125, 125, 116, 116, 104,
      104, 89, 89, 60, 60, 38, 38, 0, 1, 18, 5, 32, 27, 47, 42, 67, 65, 85,
      85, 110, 110, 118, 118, 126, 126, 136, 136, 144, 144, 159, 159, 63, 63,
      149, 149, 134, 134, 125, 125, 116, 116, 104, 104, 89, 89, 60, 60, 38,
      38, 0, 1, 18, 5, 32, 27, 47, 42, 67, 65, 85, 85, 110, 110, 118, 118,
      126, 126, 136, 136, 144, 144, 159, 159, 63, 63, 149, 149, 134, 134,
      125, 125, 116, 116, 104, 104, 89, 89, 60, 60, 38, 38, 0, 1>>,
    <<211, 18, 1, 0, 0>>,
    <<212, 220, 95, 156, 190, 57, 57, 57, 71, 72, 72, 72, 58, 0, 3, 109, 128,
      0, 0, 140, 102, 0, 0, 140, 102, 0, 0, 140, 102, 0, 10, 72, 128, 0, 10,
      72, 128, 0, 10, 72, 128, 0, 10, 72, 128, 32, 10, 20, 10, 24, 0, 28,
      204, 35, 158, 35, 158, 1, 1, 1, 1, 4, 4, 4, 4, 1, 0, 2, 128, 0, 16, 0,
      16, 0, 16, 19, 158, 19, 158, 19, 158, 19, 158, 5, 5, 5, 5, 5, 5, 5, 5,
      35, 158, 255, 255, 19, 51, 24, 0, 22, 102, 16, 0, 255, 1, 0, 2, 0, 3,
      0, 4, 0, 5, 0, 6, 0, 7, 0, 8, 0, 9, 0, 10, 0, 11, 0, 12, 0, 13, 0, 14,
      0, 15, 0, 27, 37, 220, 24, 0, 32, 0, 28, 225, 0, 255, 224, 200, 200,
      65, 143>>,
    <<173, 1, 2, 3, 4, 5, 6, 6, 6, 6, 6, 6, 6, 6, 6, 6, 6, 32, 64, 96, 144,
      192, 240, 255, 255, 255, 255, 255, 255, 255, 255, 255, 255>>,
    <<174, 1, 2, 3, 4, 5, 6, 6, 6, 6, 6, 6, 6, 6, 6, 6, 6, 32, 64, 96, 144,
      192, 240, 255, 255, 255, 255, 255, 255, 255, 255, 255, 255>>,
    <<229, 11, 10, 12, 0, 2, 4, 6, 8, 15, 27, 2, 26, 26, 11, 10, 12, 1, 3, 5,
      7, 9, 16, 27, 3, 26, 26>>,
    <<230, 17, 18, 19, 20, 21, 22, 23, 24, 17, 18, 19, 20, 21, 22, 23, 24>>,
    <<237, 33, 73, 0, 0, 0, 0>>,
    <<85, 129>>,
    <<243, 0, 1, 0, 13, 0>>,
    <<244, 0, 0, 64, 131, 197, 0, 1, 0, 0, 0, 0, 0, 0>>,
    <<251, 32, 64, 96, 128, 160, 192, 224, 19, 24, 24, 24, 22, 13, 13, 0,
      199, 207, 216, 225, 234, 243, 249, 255>>,
    <<245, 0>>,
    <<246, 64, 64, 64, 64, 64, 64, 64, 64, 0, 0, 0, 0, 0, 0, 0, 0>>,
    <<247, 64, 64, 64, 64, 64, 64, 64, 64, 0, 0, 0, 0, 0, 0, 0, 0>>,
    <<248, 64, 64, 64, 64, 64, 64, 64, 64, 0, 0, 0, 0, 0, 0, 0, 0>>,
    <<252, 19, 112, 208, 38, 48, 124, 2, 255, 18, 34, 34, 16, 0>>,
    <<19>>
  >>

\* dsi_dcs_write_seq(dsi, seq...): one write of the buffer; the macro makes
\* the enclosing function return ret when ret < 0
dsi_dcs_write_seq(c, f, d) == mipi_dsi_dcs_write_buffer(c, f, d)

\* mutant of write_seqs: dsi_dcs_write_seq() does not return on failure
RECURSIVE write_seqs_keep_going(_, _, _, _)
write_seqs_keep_going(c, f, seqs, i) ==
    IF i > Len(seqs) THEN [c EXCEPT !.ret = 0]
    ELSE LET c1 == dsi_dcs_write_seq(c, f, seqs[i]) IN
         IF c1.halt THEN c1 ELSE write_seqs_keep_going(c1, f, seqs, i + 1)

\* the dsi_dcs_write_seq() calls seqs[i..], stopping at the first failure
RECURSIVE write_seqs(_, _, _, _)
write_seqs(c, f, seqs, i) ==
    IF i > Len(seqs) THEN [c EXCEPT !.ret = 0]
    ELSE LET c1 == dsi_dcs_write_seq(c, f, seqs[i]) IN
         IF c1.ret < 0 THEN c1 ELSE write_seqs(c1, f, seqs, i + 1)

\* mutant of prepare_poweroff: the poweroff label drives the line low
prepare_poweroff_low(c, err) == [gpiod_set_value(c, 0) EXCEPT !.ret = err]

\* poweroff: gpiod_set_value(pinfo->reset_gpio, 1); return err;
prepare_poweroff(c, err) == [gpiod_set_value(c, 1) EXCEPT !.ret = err]

\* mutant of prepare_is_noop: the prepared check is missing
prepare_never_noop(c) == FALSE

\* if (pinfo->prepared) return 0;
prepare_is_noop(c) == c.prepared

\* mutant of prepare_finish: the result of mipi_dsi_dcs_set_display_on()
\* is not checked
prepare_finish_unchecked(c, f) ==
    LET c1 == mipi_dsi_dcs_exit_sleep_mode(c, f) IN
    IF c1.ret < 0 THEN c1 ELSE
    LET c2 == mipi_dsi_dcs_write(msleep(c1, 256), f, 7, <<17>>, 0) IN
    IF c2.ret < 0 THEN [gpiod_set_value(c2, 1) EXCEPT !.ret = c2.ret] ELSE
    LET c3 == dsi_dcs_write_seq(c2, f, <<189, 1, 5>>) IN
    IF c3.ret < 0 THEN c3 ELSE
    LET c4 == mipi_dsi_dcs_set_display_on(c3, f)
        c5 == msleep(usleep_range(c4, 5000, 6000), 120) IN
    Then(c5, [c5 EXCEPT !.prepared = TRUE, !.ret = 0])

\* from mipi_dsi_dcs_exit_sleep_mode() to the end of lg_panel_prepare()
prepare_finish(c, f) ==
    LET c1 == mipi_dsi_dcs_exit_sleep_mode(c, f) IN
    IF c1.ret < 0 THEN c1 ELSE
    LET c2 == mipi_dsi_dcs_write(msleep(c1, 256), f, 7, <<17>>, 0) IN
    IF c2.ret < 0 THEN prepare_poweroff(c2, c2.ret) ELSE
    LET c3 == dsi_dcs_write_seq(c2, f, <<189, 1, 5>>) IN
    IF c3.ret < 0 THEN c3 ELSE
    LET c4 == mipi_dsi_dcs_set_display_on(c3, f) IN
    IF c4.ret < 0 THEN c4 ELSE
    LET c5 == msleep(usleep_range(c4, 5000, 6000), 120) IN
    Then(c5, [c5 EXCEPT !.prepared = TRUE, !.ret = 0])

\* mutant of prepare_init: the init writes go out before the tear-on,
\* page-address and brightness calls
prepare_init_writes_first(c, f) ==
    LET c0 == write_seqs(c, f, init_write_seqs, 1) IN
    IF c0.ret < 0 THEN c0 ELSE
    LET c1 == mipi_dsi_dcs_set_tear_on(c0, f, 0) IN
    IF c1.ret < 0 THEN c1 ELSE
    LET c2 == mipi_dsi_dcs_set_page_address(c1, f, 0, 3119) IN
    IF c2.ret < 0 THEN c2 ELSE
    mipi_dsi_dcs_set_display_brightness(c2, f, 255)

\* the tear-on, page-address and brightness calls, then the init writes
prepare_init(c, f) ==
    LET c1 == mipi_dsi_dcs_set_tear_on(c, f, 0) IN
    IF c1.ret < 0 THEN c1 ELSE
    LET c2 == mipi_dsi_dcs_set_page_address(c1, f, 0, 3119) IN
    IF c2.ret < 0 THEN c2 ELSE
    LET c3 == mipi_dsi_dcs_set_display_brightness(c2, f, 255) IN
    IF c3.ret < 0 THEN c3 ELSE
    write_seqs(c3, f, init_write_seqs, 1)

\* lg_panel_prepare() past the first_enable block
prepare_body(c, f) ==
    IF prepare_is_noop(c) THEN [c EXCEPT !.ret = 0] ELSE
    LET c1 == lg_panel_power_on(
                  usleep_range(c, init_delay_us, init_delay_us), f) IN
    IF c1.ret < 0 THEN prepare_poweroff(c1, c1.ret) ELSE
    LET c2 == prepare_init(c1, f) IN
    IF c2.ret < 0 THEN c2 ELSE
    prepare_finish(c2, f)

lg_panel_prepare(c, f) ==
    IF c.first_enable
    THEN LET c1 == panel_reset_at_beginning(
                       [c EXCEPT !.first_enable = FALSE], f) IN
         IF c1.ret < 0 THEN c1 ELSE prepare_body(c1, f)
    ELSE prepare_body(c, f)

\* mutant of lg_panel_unprepare: the compiled-out body clears prepared
lg_panel_unprepare_full(c) == [c EXCEPT !.prepared = FALSE, !.ret = 0]

\* return 0; the rest of the function is compiled out
lg_panel_unprepare(c) == [c EXCEPT !.ret = 0]

\* mutant of lg_panel_disable: the compiled-out body clears enabled
lg_panel_disable_full(c) == [c EXCEPT !.enabled = FALSE, !.ret = 0]

\* return 0; the body is compiled out
lg_panel_disable(c) == [c EXCEPT !.ret = 0]

---------------------------------------------------------------------------
(* BrightnessController *)

\* mutant of lg_panel_backlight_get_brightness: the value is not masked
get_brightness_unmasked(c, f, v) ==
    LET c1 == mipi_dsi_dcs_get_display_brightness(c, f, v) IN
    IF c1.ret < 0 THEN c1 ELSE [c1 EXCEPT !.ret = v]

\* v is the value the panel reports; brightness & 0xff is returned
lg_panel_backlight_get_brightness(c, f, v) ==
    LET c1 == mipi_dsi_dcs_get_display_brightness(c, f, v) IN
    IF c1.ret < 0 THEN c1 ELSE [c1 EXCEPT !.ret = v % 256]

\* backlight_enable(): unblank the properties, then call update_status
backlight_enable(c, f) ==
    lg_panel_backlight_update_status(
        [c EXCEPT !.props.power = FB_BLANK_UNBLANK,
                  !.props.fb_blank = FB_BLANK_UNBLANK,
                  !.props.state = IF core_fbblank(@)
                                  THEN @ - BL_CORE_FBBLANK ELSE @], f)

\* mutant of lg_panel_enable: enabled is set before the result of
\* backlight_enable() is looked at
lg_panel_enable_set_early(c, f) ==
    IF c.enabled THEN [c EXCEPT !.ret = 0] ELSE
    LET c1 == [backlight_enable(c, f) EXCEPT !.enabled = TRUE] IN
    IF c1.ret # 0 THEN c1 ELSE [c1 EXCEPT !.ret = 0]

lg_panel_enable(c, f) ==
    IF c.enabled THEN [c EXCEPT !.ret = 0] ELSE
    LET c1 == backlight_enable(c, f) IN
    IF c1.ret # 0 THEN c1 ELSE
    [c1 EXCEPT !.enabled = TRUE, !.ret = 0]

---------------------------------------------------------------------------
(* Construction: panel_probe() and what it calls *)

\* struct panel_info as devm_kzalloc() returns it: every field zero
NoHandles ==
    [supplies |-> Null, reset_gpio |-> Null, pinctrl |-> Null,
     active |-> Null, suspend |-> Null, backlight |-> Null, dsc |-> Null]

\* a logged lookup: argument a is 1 when an object came back, the return
\* value is the errno the pointer encodes (0 for an object or NULL)
Lookup(c, op, p) ==
    [c EXCEPT !.tr = Append(@, Ev(op, IF p.kind = "valid" THEN 1 ELSE 0, 0,
                                  <<>>, PTR_ERR(p)))]

\* e holds what every allocation and lookup of one panel_probe() yields
panel_pinctrl_init(c, e) ==
    LET c1 == [Lookup(c, "devm_pinctrl_get", e.pinctrl)
                   EXCEPT !.handles.pinctrl = e.pinctrl] IN
    IF IS_ERR_OR_NULL(e.pinctrl)
    THEN [c1 EXCEPT !.ret = PTR_ERR(e.pinctrl)] ELSE
    LET c2 == [Lookup(c1, "pinctrl_lookup_state:panel_active", e.active)
                   EXCEPT !.handles.active = e.active] IN
    IF IS_ERR_OR_NULL(e.active)
    THEN [c2 EXCEPT !.ret = PTR_ERR(e.active)] ELSE
    LET c3 == [Lookup(c2, "pinctrl_lookup_state:panel_suspend", e.suspend)
                   EXCEPT !.handles.suspend = e.suspend] IN
    IF IS_ERR_OR_NULL(e.suspend)
    THEN [c3 EXCEPT !.ret = PTR_ERR(e.suspend)]
    ELSE [c3 EXCEPT !.ret = 0]

\* the backlight device is registered with brightness max_brightness
lg_panel_backlight_init(c, e) ==
    LET c1 == Lookup([c EXCEPT !.brightness = max_brightness],
                     "devm_backlight_device_register", e.backlight) IN
    IF IS_ERR(e.backlight)
    THEN [c1 EXCEPT !.ret = PTR_ERR(e.backlight)]
    ELSE [c1 EXCEPT !.handles.backlight = e.backlight,
                    !.props = [power |-> 0, fb_blank |-> 0, state |-> 0,
                               brightness |-> max_brightness],
                    !.ret = 0]

\* the rails, the reset GPIO (requested as GPIOD_OUT_HIGH), the pin
\* states and the backlight, each ending panel_add() when its result is
\* negative; then the panel is put on the DRM panel list
panel_add(c, e) ==
    LET c1 == [c EXCEPT
                 !.tr = Append(@, Ev("devm_regulator_bulk_get",
                                     IF e.supplies = 0 THEN 1 ELSE 0,
                                     NumSupplies, <<>>, e.supplies)),
                 !.ret = e.supplies] IN
    IF c1.ret < 0 THEN c1 ELSE
    LET c2 == [Lookup([c1 EXCEPT !.handles.supplies = Valid],
                      "devm_gpiod_get", e.reset)
                   EXCEPT !.handles.reset_gpio = e.reset] IN
    IF IS_ERR(e.reset) THEN [c2 EXCEPT !.ret = PTR_ERR(e.reset)] ELSE
    LET c3 == panel_pinctrl_init([c2 EXCEPT !.reset_gpio = 1], e) IN
    IF c3.ret < 0 THEN c3 ELSE
    LET c4 == lg_panel_backlight_init(c3, e) IN
    IF c4.ret < 0 THEN c4 ELSE
    [Infallible(Infallible(c4, "drm_panel_init", 0, 0), "drm_panel_add", 0, 0)
        EXCEPT !.registered = TRUE]

\* the driver data is pointed at a new, zeroed struct panel_info: a panel
\* that an earlier panel_probe() put on the list stays there, no failure
\* path below calls drm_panel_remove().  The device is bound when
\* panel_probe() returns 0
panel_probe(c0, e) ==
    IF ~e.pinfo THEN [c0 EXCEPT !.ret = -ENOMEM] ELSE
    LET c  == [c0 EXCEPT !.prepared = FALSE, !.enabled = FALSE,
                         !.first_enable = FALSE, !.brightness = 0,
                         !.handles = NoHandles,
                         !.stale = IF c0.registered THEN @ + 1 ELSE @,
                         !.registered = FALSE]
        c1 == panel_add(c, e) IN
    IF c1.ret < 0 THEN c1 ELSE
    LET c2 == [c1 EXCEPT !.tr = Append(@, Ev("mipi_dsi_attach", 0, 0, <<>>,
                                             e.attach)),
                         !.ret = e.attach] IN
    IF c2.ret < 0 THEN c2 ELSE
    IF ~e.dsc THEN [c2 EXCEPT !.ret = -ENOMEM] ELSE
    [c2 EXCEPT !.handles.dsc = Valid, !.bound = TRUE]

---------------------------------------------------------------------------
(* Driver removal and shutdown *)

\* mipi_dsi_detach(dsi)
mipi_dsi_detach(c, f) ==
    LET r == LeafRet(c, f) IN
    Leaf(c, [c EXCEPT !.n = @ + 1, !.ret = r,
                      !.tr = Append(@, Ev("mipi_dsi_detach", 0, 0, <<>>, r))])

\* if (pinfo->base.dev) drm_panel_remove(&pinfo->base); base.dev is set
\* by drm_panel_init(), which panel_add() calls just before drm_panel_add().
\* Only the panel of this struct is removed: the stale ones stay
panel_del(c) ==
    IF c.registered
    THEN [Infallible(c, "drm_panel_remove", 0, 0) EXCEPT !.registered = FALSE]
    ELSE c

\* mutant of panel_remove: the panel is powered off before it is deleted
panel_remove_power_off(c, f) ==
    LET c1 == mipi_dsi_detach(lg_panel_disable(lg_panel_unprepare(c)), f)
    IN  [panel_del(lg_panel_power_off(c1, f))
            EXCEPT !.ret = 0, !.bound = FALSE]

\* the results of unprepare, disable and detach are only logged; the
\* device is unbound when panel_remove() has returned
panel_remove(c, f) ==
    LET c1 == mipi_dsi_detach(lg_panel_disable(lg_panel_unprepare(c)), f)
    IN  [panel_del(c1) EXCEPT !.ret = 0, !.bound = FALSE]

panel_shutdown(c) ==
    [lg_panel_unprepare(lg_panel_disable(c)) EXCEPT !.ret = 0]

---------------------------------------------------------------------------
(* The state machine *)

NoPrev == [op |-> "none", ret |-> 0, po |-> <<>>]

\* what a call record tells of the call before it when that was a
\* lg_panel_power_on(): its return value and the enable count it found
Summary(l) ==
    IF l.op = "lg_panel_power_on"
    THEN [op |-> l.op, ret |-> l.ret, po |-> l.po]
    ELSE NoPrev

\* the backlight properties of a device whose struct is all zero
NoProps == [power |-> 0, fb_blank |-> 0, state |-> 0, brightness |-> 0]

\* the context of a device as devm_kzalloc() leaves it; it stands in the
\* variable run when no call is in flight
NoCtx ==
    [prepared |-> FALSE, enabled |-> FALSE, first_enable |-> FALSE,
     brightness |-> 0, reset_gpio |-> 0, enable_count |-> 0, load |-> 0,
     pin |-> "default", props |-> NoProps, powered |-> FALSE,
     registered |-> FALSE, stale |-> 0, bound |-> FALSE,
     handles |-> NoHandles,
     ret |-> 0, tr |-> <<>>, n |-> 0, cold |-> FALSE, po |-> <<>>,
     resets |-> 0, oob |-> <<>>, starved |-> FALSE,
     budget |-> -1, halt |-> FALSE]

\* no call in flight.  Of a call in flight: op, arg its name and argument;
\* c0 the context it was entered on; f the fault that has struck it (none
\* yet: NoFault); oob the bytes its reads behind short entries have
\* yielded; k, n the leaf calls and the fallible leaf calls it has made;
\* more : it has a leaf call to make yet; ret, tr, cold, po : its return
\* value (when more is false), trace and history so far
NoRun ==
    [op |-> "none", arg |-> NullTable, c0 |-> NoCtx, f |-> NoFault,
     oob |-> <<>>, k |-> 0, n |-> 0, more |-> FALSE,
     ret |-> 0, tr |-> <<>>, cold |-> FALSE, po |-> <<>>]

Idle == run.op = "none"

\* the state after a panel_probe() in which every resource was there:
\* devm_kzalloc() zeroes struct panel_info; panel_add() gets the reset
\* GPIO as GPIOD_OUT_HIGH and lg_panel_backlight_init() sets the
\* brightness to max_brightness
Init ==
    /\ prepared = FALSE
    /\ enabled = FALSE
    /\ first_enable = FALSE
    /\ brightness = max_brightness
    /\ reset_gpio = 1
    /\ enable_count = 0
    /\ load = 0
    /\ pin = "default"
    /\ props = [power |-> 0, fb_blank |-> 0, state |-> 0,
                brightness |-> max_brightness]
    /\ powered = FALSE
    /\ registered = TRUE
    /\ stale = 0
    /\ bound = TRUE
    /\ handles = [supplies |-> Valid, reset_gpio |-> Valid,
                  pinctrl |-> Valid, active |-> Valid, suspend |-> Valid,
                  backlight |-> Valid, dsc |-> Valid]
    /\ n_prepare = 0
    /\ n_reset = 0
    /\ run = NoRun
    /\ last = [op |-> "panel_probe", arg |-> NullTable, ret |-> 0,
               tr |-> <<>>, cold |-> FALSE, po |-> <<>>, prev |-> NoPrev]

\* the fields a function of the driver writes, but for the brightness and
\* the backlight properties
Own(c) ==
    /\ prepared' = c.prepared
    /\ enabled' = c.enabled
    /\ first_enable' = c.first_enable
    /\ reset_gpio' = c.reset_gpio
    /\ enable_count' = c.enable_count
    /\ load' = c.load
    /\ pin' = c.pin
    /\ powered' = c.powered
    /\ registered' = c.registered
    /\ stale' = c.stale
    /\ bound' = c.bound
    /\ handles' = c.handles
    /\ n_reset' = c.resets

\* the state after a function that does not sleep: it has run from its
\* entry to its return in context c, and no call in flight is touched
Commit(c, op, arg) ==
    /\ Own(c)
    /\ brightness' = c.brightness
    /\ props' = c.props
    /\ last' = [op |-> op, arg |-> arg, ret |-> c.ret, tr |-> c.tr,
                cold |-> c.cold, po |-> c.po, prev |-> Summary(last)]
    /\ UNCHANGED run

\* the functions that sleep
Exec(op, c, f, arg) ==
    CASE op = "lg_panel_prepare" -> lg_panel_prepare(c, f)
      [] op = "lg_panel_power_on" -> lg_panel_power_on(c, f)
      [] op = "panel_reset_at_beginning" -> panel_reset_at_beginning(c, f)
      [] op = "send_mipi_cmds" -> send_mipi_cmds(c, f, arg)

\* the call in flight run up to its k-th leaf call, struck by fault f,
\* its reads behind short entries yielding oob.  None of the four
\* functions reads or writes the brightness or the backlight properties,
\* which are the current ones
Upto(k, f, oob) ==
    Exec(run.op,
         [run.c0 EXCEPT !.brightness = brightness, !.props = props,
                        !.budget = k, !.oob = oob],
         f, run.arg)

\* what the variable run keeps of context c
Progress(r, c) ==
    [r EXCEPT !.n = c.n, !.more = c.halt, !.ret = c.ret, !.tr = c.tr,
              !.cold = c.cold, !.po = c.po]

\* the call of op entered: c is its context at its first leaf call
Enter(c, op, arg) ==
    /\ Own(c)
    /\ run' = Progress([NoRun EXCEPT !.op = op, !.arg = arg,
                            !.c0 = [Ctx EXCEPT !.brightness = 0,
                                               !.props = NoProps]], c)

\* the entry of a function that sleeps: the statements before its first
\* leaf call.  The entry is recorded as the last call
Call(op, arg) ==
    /\ Idle
    /\ Enter(Exec(op, [Ctx EXCEPT !.budget = 0], NoFault, arg), op, arg)
    /\ last' = [op |-> "call", arg |-> NullTable, ret |-> 0, tr |-> <<>>,
                cold |-> FALSE, po |-> <<>>, prev |-> NoPrev]
    /\ UNCHANGED <<brightness, props>>

\* the read behind an entry of len 1 can yield any byte
OobBytes == 0..255

\* the call in flight has come to context c by its next leaf call, under
\* fault f and with the bytes oob read behind short entries
StepTo(c, f, oob) ==
    /\ Own(c)
    /\ run' = Progress([run EXCEPT !.k = @ + 1, !.oob = oob,
                             !.f = IF c.n >= f.at THEN f ELSE NoFault], c)

\* the next leaf call of the call in flight, and the statements behind it
\* up to the leaf call after it.  A fallible call fails or succeeds (once
\* a call has failed, no later one does); a read behind a short entry
\* yields any byte
Step ==
    /\ ~Idle /\ run.more
    /\ LET short  == /\ run.op = "send_mipi_cmds"
                     /\ Upto(run.k + 1, run.f, run.oob).starved
           faults == IF run.f = NoFault
                     THEN {NoFault} \cup [at : {run.n + 1}, err : ErrVals]
                     ELSE {run.f}
       IN  \E f \in faults, b \in IF short THEN OobBytes ELSE {0} :
             \E oob \in {IF short THEN Append(run.oob, b) ELSE run.oob} :
                 StepTo(Upto(run.k + 1, f, oob), f, oob)
    /\ UNCHANGED <<brightness, props, n_prepare, last>>

\* the return of the call in flight
Return ==
    /\ ~Idle /\ ~run.more
    /\ last' = [op |-> run.op, arg |-> run.arg, ret |-> run.ret,
                tr |-> run.tr, cold |-> run.cold, po |-> run.po,
                prev |-> Summary(last)]
    /\ run' = NoRun
    /\ UNCHANGED <<prepared, enabled, first_enable, brightness, reset_gpio,
                   enable_count, load, pin, props, powered, registered,
                   stale, bound, handles, n_prepare, n_reset>>

Prepare ==
    /\ bound
    /\ n_prepare < MaxPrepare
    /\ Call("lg_panel_prepare", NullTable)
    /\ n_prepare' = n_prepare + 1

Unprepare ==
    /\ Idle
    /\ bound
    /\ LET c == lg_panel_unprepare(Ctx) IN
       Commit(c, "lg_panel_unprepare", NullTable)
    /\ UNCHANGED n_prepare

Enable ==
    /\ Idle
    /\ bound
    /\ \E f \in FaultPlans(1) :
           LET c == lg_panel_enable(Ctx, f) IN
           Commit(c, "lg_panel_enable", NullTable)
    /\ UNCHANGED n_prepare

Disable ==
    /\ Idle
    /\ bound
    /\ LET c == lg_panel_disable(Ctx) IN
       Commit(c, "lg_panel_disable", NullTable)
    /\ UNCHANGED n_prepare

\* 16-bit values the panel can report for its brightness
ReadValues == {0, 1, 255, 256, 4660, 65535}

\* the backlight requests of the lifecycle specification: brightness 200
\* with the power state unblanked (0) or powered down (4)
Requests ==
    { [power |-> pw, fb_blank |-> FB_BLANK_UNBLANK, state |-> 0,
       brightness |-> 200] : pw \in {FB_BLANK_UNBLANK, 4} }

\* the backlight core stores the requested properties and calls the
\* update_status callback
UpdateStatus ==
    /\ bound
    /\ \E p \in Requests, f \in FaultPlans(1) :
           LET c == lg_panel_backlight_update_status(
                        [Ctx EXCEPT !.props = p], f) IN
           Commit(c, "lg_panel_backlight_update_status", NullTable)
    /\ UNCHANGED n_prepare

\* the backlight core calls the get_brightness callback; the panel
\* reports one of the values of V
GetBrightnessOf(V) ==
    /\ \E v \in V, f \in FaultPlans(1) :
           LET c == lg_panel_backlight_get_brightness(Ctx, f, v) IN
           Commit(c, "lg_panel_backlight_get_brightness", NullTable)
    /\ UNCHANGED n_prepare

GetBrightness == GetBrightnessOf(ReadValues)

\* the same call beside the panel callbacks, the panel reporting 0x1234
ReadBack == GetBrightnessOf({4660})

Next ==
    \/ Prepare \/ Step \/ Return
    \/ Unprepare \/ Enable \/ Disable
    \/ UpdateStatus \/ ReadBack

Spec == Init /\ [][Next]_vars

---------------------------------------------------------------------------
(* The panel callbacks together with removal and shutdown *)

Remove ==
    /\ Idle
    /\ bound
    /\ \E f \in FaultPlans(1) :
           LET c == panel_remove(Ctx, f) IN
           Commit(c, "panel_remove", NullTable)
    /\ UNCHANGED n_prepare

Shutdown ==
    /\ Idle
    /\ bound
    /\ LET c == panel_shutdown(Ctx) IN
       Commit(c, "panel_shutdown", NullTable)
    /\ UNCHANGED n_prepare

NextLifecycle ==
    \/ Prepare \/ Step \/ Return
    \/ Unprepare \/ Enable \/ Disable \/ Remove \/ Shutdown
    \/ UpdateStatus \/ ReadBack

SpecLifecycle == Init /\ [][NextLifecycle]_vars

---------------------------------------------------------------------------
(* Construction and removal of the device *)

\* what the allocations and lookups of a panel_probe() can yield: memory
\* or none; 0 or -EPROBE_DEFER or -ENODEV from the calls returning int;
\* an object or an error pointer from the GPIO and backlight calls; an
\* object, an error pointer or NULL (the stubs of a kernel built without
\* pin control) from the pin-control calls
ProbeEnvs ==
    [pinfo : BOOLEAN, supplies : {0, -517, -19},
     reset : {Valid, ErrPtr(-517), ErrPtr(-2)},
     pinctrl : {Valid, Null, ErrPtr(-517), ErrPtr(-19)},
     active : {Valid, Null, ErrPtr(-19)},
     suspend : {Valid, Null, ErrPtr(-19)},
     backlight : {Valid, ErrPtr(-12)},
     attach : {0, -517, -19}, dsc : BOOLEAN]

\* the panels left on the list by failed probes are counted up to this
MaxStale == 2

\* the device before its first panel_probe(): no struct panel_info, the
\* rails off, the reset line not driven
InitProbe ==
    /\ prepared = FALSE
    /\ enabled = FALSE
    /\ first_enable = FALSE
    /\ brightness = 0
    /\ reset_gpio = 0
    /\ enable_count = 0
    /\ load = 0
    /\ pin = "default"
    /\ props = NoProps
    /\ powered = FALSE
    /\ registered = FALSE
    /\ stale = 0
    /\ bound = FALSE
    /\ handles = NoHandles
    /\ n_prepare = 0
    /\ n_reset = 0
    /\ run = NoRun
    /\ last = [op |-> "module_init", arg |-> NullTable, ret |-> 0,
               tr |-> <<>>, cold |-> FALSE, po |-> <<>>, prev |-> NoPrev]

\* the driver core probes a device that is not bound, also again after a
\* panel_probe() that failed (at once when that returned -EPROBE_DEFER)
Probe ==
    /\ Idle
    /\ ~bound
    /\ registered => stale < MaxStale
    /\ \E e \in ProbeEnvs :
           LET c == panel_probe(Ctx, e) IN
           Commit(c, "panel_probe", NullTable)
    /\ UNCHANGED n_prepare

NextProbe ==
    Probe \/ Unprepare \/ Enable \/ Disable \/ Remove \/ Shutdown

SpecProbe == InitProbe /\ [][NextProbe]_vars

---------------------------------------------------------------------------
(* send_mipi_cmds() applied to bounded command tables *)

\* entries of len 2, 3 and 4 with delays of 0, 5 and 120 ms
CmdPool == { <<0, 17>>, <<5, 38, 2>>, <<120, 83, 12, 48>> }

RECURSIVE SeqsUpTo(_, _)
SeqsUpTo(S, n) ==
    IF n = 0 THEN { <<>> }
    ELSE LET shorter == SeqsUpTo(S, n - 1) IN
         shorter \cup { Append(q, x) : q \in shorter, x \in S }

\* tables of at most MaxBatchLen entries and the terminator, some with an
\* entry lying behind the terminator; the descriptor's tables; NULL
Batches ==
    { Table(q \o <<Sentinel>> \o t) :
          q \in SeqsUpTo(CmdPool, MaxBatchLen),
          t \in { <<>>, << <<1, 41>> >> } }
    \cup {lg_sw49410_rev1_on_cmds_1, lg_sw49410_rev1_on_cmds_2, NullTable}

\* index of the first terminator of a table
RECURSIVE FirstSentinel(_, _)
FirstSentinel(e, i) ==
    IF Len(e[i]) = 0 THEN i ELSE FirstSentinel(e, i + 1)

\* number of entries before the terminator
NumEntries(b) == IF b.null THEN 0 ELSE FirstSentinel(b.e, 1) - 1

\* send_mipi_cmds() has no caller; it is entered here with any of the
\* tables
Transmit ==
    /\ \E b \in Batches : Call("send_mipi_cmds", b)
    /\ UNCHANGED n_prepare

NextBatch == Transmit \/ Step \/ Return \/ UpdateStatus \/ ReadBack

SpecBatch == Init /\ [][NextBatch]_vars

---------------------------------------------------------------------------
(* send_mipi_cmds() applied to tables that may hold an entry of len 1 *)

\* a well-formed entry and an entry that has only a delay byte
AnyPool == { <<5, 38, 2>>, <<7>> }

\* number of entries of len 1 before the terminator of table b
NumShort(b) ==
    IF b.null THEN 0
    ELSE Cardinality({ k \in 1..NumEntries(b) : Len(b.e[k]) = 1 })

\* tables of fewer than MaxBatchLen such entries, at most one of them of
\* len 1, and the terminator (the empty table among them); and NULL
AnyBatches ==
    { b \in { Table(q \o <<Sentinel>>) :
                 q \in SeqsUpTo(AnyPool, MaxBatchLen - 1) } :
          NumShort(b) <= 1 }
    \cup {NullTable}

\* send_mipi_cmds() entered with any of these tables
TransmitAny ==
    /\ \E b \in AnyBatches : Call("send_mipi_cmds", b)
    /\ UNCHANGED n_prepare

NextBatchAny ==
    TransmitAny \/ Step \/ Return \/ UpdateStatus \/ ReadBack

SpecBatchAny == Init /\ [][NextBatchAny]_vars

\* a table with two entries of len 1: the read behind each of them yields
\* a byte of its own
ShortBatches == { Table(<< <<7>>, <<7>>, Sentinel >>) }

TransmitShort ==
    /\ \E b \in ShortBatches : Call("send_mipi_cmds", b)
    /\ UNCHANGED n_prepare

NextBatchShort == TransmitShort \/ Step \/ Return

SpecBatchShort == Init /\ [][NextBatchShort]_vars

---------------------------------------------------------------------------
(* The backlight callbacks applied to bounded requests *)

\* backlight requests: power unblanked (0), normal (1) or powered down (4),
\* fb_blank unblanked or powered down, the state bits BL_CORE_SUSPENDED (1)
\* and BL_CORE_FBBLANK (2) in every combination, four brightness values
PropsSet ==
    [power : {FB_BLANK_UNBLANK, 1, 4}, fb_blank : {FB_BLANK_UNBLANK, 4},
     state : 0..3, brightness : {0, 1, 200, max_brightness}]

\* the backlight core stores the requested properties and calls the
\* update_status callback
BacklightRequest ==
    /\ \E p \in PropsSet, f \in FaultPlans(1) :
           LET c == lg_panel_backlight_update_status(
                        [Ctx EXCEPT !.props = p], f) IN
           Commit(c, "lg_panel_backlight_update_status", NullTable)
    /\ UNCHANGED n_prepare

NextBacklight == BacklightRequest \/ GetBrightness

SpecBacklight == Init /\ [][NextBacklight]_vars

---------------------------------------------------------------------------
(* The power sequencer's functions called on their own *)

\* most enables of the rails outstanding at a time
MaxEnables == 2

\* most calls of panel_reset_at_beginning()
MaxResets == 2

\* the fallible leaf calls of lg_panel_power_off(): the pin-state
\* selection, one load per supply and the bulk call
PowerLeafCalls == NumSupplies + 2

PowerOn ==
    /\ enable_count < MaxEnables
    /\ Call("lg_panel_power_on", NullTable)
    /\ UNCHANGED n_prepare

\* lg_panel_power_off() does not sleep
PowerOff ==
    /\ Idle
    /\ \E f \in FaultPlans(PowerLeafCalls) :
           LET c == lg_panel_power_off(Ctx, f) IN
           Commit(c, "lg_panel_power_off", NullTable)
    /\ UNCHANGED n_prepare

ResetAtBeginning ==
    /\ n_reset < MaxResets
    /\ enable_count < MaxEnables
    /\ Call("panel_reset_at_beginning", NullTable)
    /\ UNCHANGED n_prepare

NextPower ==
    \/ PowerOn \/ PowerOff \/ ResetAtBeginning \/ Step \/ Return
    \/ UpdateStatus \/ ReadBack

SpecPower == Init /\ [][NextPower]_vars

---------------------------------------------------------------------------
(* Properties *)

\* positions of the leaf calls of a trace that returned a failure
Failed(tr) == { i \in DOMAIN tr : tr[i].ret < 0 }

\* positions of the DCS commands of a trace
DcsAt(tr) == { i \in DOMAIN tr : tr[i].op \in DcsOps }

\* the step is the entry of lg_panel_prepare()
PrepareStep == n_prepare' = n_prepare + 1

\* the step is the return of a call of the sleeping function op
Returns(op) == run.op = op /\ run'.op = "none"

\* what the write of table entry cmd looks like on the command channel:
\* address cmd[2], the len - 2 bytes behind it, returning r
ExpectedWrite(cmd, r) ==
    Ev("mipi_dsi_dcs_write", cmd[2], Len(cmd) - 2,
       [j \in 1..(Len(cmd) - 2) |-> cmd[j + 2]], r)

\* the sleep of the delay byte cmd[1], in milliseconds
ExpectedDelay(cmd) ==
    Ev("usleep_range", cmd[1] * 1000, (cmd[1] + 1) * 1000, <<>>, 0)

\* trace tr holds, from position k + 1 on, the writes of the first m
\* entries of e in order, each followed by its delay
BatchAt(tr, k, e, m) ==
    /\ Len(tr) >= k + 2 * m
    /\ \A i \in 1..m : /\ tr[k + 2 * i - 1] = ExpectedWrite(e[i], 0)
                       /\ tr[k + 2 * i] = ExpectedDelay(e[i])

\* C1: when prepared is true, a call of lg_panel_prepare() makes no leaf
\* call at all (no regulator, pinctrl, reset GPIO or DSI operation), changes
\* nothing of the panel state and returns 0; so of two consecutive calls of
\* which the first succeeds, only the first does hardware I/O.
C1_PrepareIdempotent ==
    [][ /\ (prepared /\ PrepareStep) =>
               /\ ~run'.more /\ run'.tr = <<>>
               /\ UNCHANGED <<prepared, enabled, first_enable, brightness,
                              reset_gpio, enable_count, load, pin, props,
                              powered, n_reset>>
        /\ (Returns("lg_panel_prepare") /\ run.c0.prepared) =>
               /\ last'.op = "lg_panel_prepare"
               /\ last'.tr = <<>>
               /\ last'.ret = 0
               /\ UNCHANGED <<prepared, enabled, first_enable, brightness,
                              reset_gpio, enable_count, load, pin, props,
                              powered, n_reset>> ]_vars

\* a second lg_panel_prepare() was called on a prepared panel
C1_Witness ==
    /\ last.op = "lg_panel_prepare" /\ n_prepare = 2
    /\ prepared /\ last.tr = <<>> /\ last.ret = 0

\* C2: when a regulator, pinctrl or DSI call fails during
\* lg_panel_prepare(), the call returns that failure and prepared is false
\* on return; prepared becomes true only in a call of lg_panel_prepare() in
\* which no leaf call failed and which ran through power-on, the three
\* setup calls, every init write, sleep-exit, compression mode, black frame
\* and display-on.
C2_PrepareFailureSurfaced ==
    [][ /\ (Returns("lg_panel_prepare") /\ Failed(last'.tr) # {}) =>
               /\ \A i \in Failed(last'.tr) : last'.ret = last'.tr[i].ret
               /\ ~prepared'
        /\ (~prepared /\ prepared') =>
               /\ run'.op = "lg_panel_prepare"
               /\ ~run'.more
               /\ run'.ret = 0
               /\ Failed(run'.tr) = {}
               /\ run'.po # <<>>
               /\ powered'
               /\ Cardinality(DcsAt(run'.tr)) = Len(init_write_seqs) + 7
               /\ \E i \in DcsAt(run'.tr) :
                      /\ run'.tr[i].op = "mipi_dsi_dcs_set_display_on"
                      /\ \A j \in DcsAt(run'.tr) : j <= i ]_vars

\* lg_panel_prepare() failed at its last fallible step, display-on
C2_Witness ==
    /\ last.op = "lg_panel_prepare" /\ last.ret < 0 /\ ~prepared
    /\ \E i \in Failed(last.tr) :
           last.tr[i].op = "mipi_dsi_dcs_set_display_on"

\* C3: in every reachable state, enabled implies prepared.
C3_EnabledImpliesPrepared == enabled => prepared

\* C4: lg_panel_power_on() is never entered while the supplies are still
\* enabled from an earlier lg_panel_power_on().
C4_NoPowerOnWhilePowered ==
    \A i \in DOMAIN last.po : last.po[i] = 0

\* C5: no DCS command is put on the command channel unless some
\* lg_panel_power_on() has completed successfully before it.
C5_NoCommandBeforePowerOn == ~last.cold

\* C6: first_enable starts true, so panel_reset_at_beginning() runs in the
\* first lg_panel_prepare() call and in no later one: once a prepare call
\* has been made, it has run exactly once.
C6_ResetAtFirstPrepare == n_prepare >= 1 => n_reset = 1

\* C7: whenever lg_panel_prepare() returns a failure, the value last
\* driven on the reset GPIO is 1 (high).
C7_ResetHighOnFailure ==
    (last.op = "lg_panel_prepare" /\ last.ret < 0) => reset_gpio = 1

\* lg_panel_prepare() failed after the reset line had been pulsed low
C7_Witness ==
    /\ last.op = "lg_panel_prepare" /\ last.ret < 0
    /\ \E i \in DOMAIN last.tr :
           last.tr[i].op = "gpiod_set_value" /\ last.tr[i].a = 0

\* C8: send_mipi_cmds() on a table of n entries and the terminator, no
\* write failing, issues exactly the n writes in table order, each followed
\* by the sleep of its delay byte before the next write, an entry of len 2
\* as a write without payload; it stops at the terminator and returns 0.
C8_BatchInOrder ==
    (last.op = "send_mipi_cmds" /\ ~last.arg.null /\ Failed(last.tr) = {})
    => LET n == NumEntries(last.arg) IN
       /\ last.ret = 0
       /\ Len(last.tr) = 2 * n
       /\ BatchAt(last.tr, 0, last.arg.e, n)

\* a table with an address-only entry, a delayed entry with payload and
\* an entry behind the terminator was sent completely
C8_Witness ==
    /\ last.op = "send_mipi_cmds" /\ ~last.arg.null /\ last.ret = 0
    /\ LET n == NumEntries(last.arg) IN
       /\ n >= 2
       /\ Len(last.arg.e) > n + 1
       /\ Len(last.tr) = 2 * n
       /\ \E i, j \in 1..n : /\ Len(last.arg.e[i]) = 2
                             /\ Len(last.arg.e[j]) > 2
                             /\ last.arg.e[j][1] > 0

\* C9: when the write of entry k fails in send_mipi_cmds(), exactly the
\* k - 1 earlier entries have been written and slept for, the failed write
\* is the last leaf call of the trace (no write and no delay follows), and
\* the return value is the value the failed write returned.
C9_BatchStopsAtFailure ==
    (last.op = "send_mipi_cmds" /\ Failed(last.tr) # {})
    => \E k \in 1..NumEntries(last.arg) :
           /\ Len(last.tr) = 2 * (k - 1) + 1
           /\ BatchAt(last.tr, 0, last.arg.e, k - 1)
           /\ last.tr[2 * k - 1] = ExpectedWrite(last.arg.e[k], last.ret)
           /\ last.ret \in ErrVals

\* the third write of the five-entry table on_cmds_1 failed
C9_Witness ==
    /\ last.op = "send_mipi_cmds" /\ last.ret < 0
    /\ last.arg = lg_sw49410_rev1_on_cmds_1
    /\ Len(last.tr) = 5
    /\ Failed(last.tr) = {5}

\* C10: a fault-free lg_panel_prepare() that powers the panel on puts the
\* entries of the descriptor's table on_cmds_1 on the command channel, in
\* table order and each followed by its delay, before sleep-exit.
C10_PrepareSendsDescriptorBatch ==
    (last.op = "lg_panel_prepare" /\ last.ret = 0 /\ last.tr # <<>>)
    => LET e == lg_panel_desc.on_cmds_1.e
           n == NumEntries(lg_panel_desc.on_cmds_1)
       IN  \E k \in 0..Len(last.tr) :
               /\ BatchAt(last.tr, k, e, n)
               /\ \E x \in DOMAIN last.tr :
                      /\ x > k + 2 * n
                      /\ last.tr[x].op = "mipi_dsi_dcs_exit_sleep_mode"

\* in trace tr at most one leaf call failed, nothing but
\* gpiod_set_value(reset, 1) follows it, and when it is no DCS command the
\* trace holds no DCS command
FirstFailureEnds(tr) ==
    /\ Cardinality(Failed(tr)) <= 1
    /\ \A i \in Failed(tr) :
           /\ \A j \in DOMAIN tr :
                  j > i => /\ tr[j].op = "gpiod_set_value"
                           /\ tr[j].a = 1
           /\ tr[i].op \notin DcsOps => DcsAt(tr) = {}

\* C11: in one lg_panel_prepare() call the first failing regulator,
\* pinctrl or DSI call ends the call: at most one leaf call fails, nothing
\* but gpiod_set_value(reset, 1) follows it (so nothing is retried), and
\* when the failing call is one of lg_panel_power_on() no DCS command is
\* put on the command channel in that call; this holds of the call that
\* has returned and, at every leaf call, of the call in flight.
C11_FirstFailureEndsPrepare ==
    /\ (last.op = "lg_panel_prepare") => FirstFailureEnds(last.tr)
    /\ (run.op = "lg_panel_prepare") => FirstFailureEnds(run.tr)

\* lg_panel_prepare() failed in lg_panel_power_on(), at the pin state,
\* and only drove the reset line high afterwards
C11_Witness ==
    /\ last.op = "lg_panel_prepare" /\ last.ret < 0
    /\ \E i \in Failed(last.tr) :
           /\ last.tr[i].op = "pinctrl_select_state"
           /\ Len(last.tr) = i + 1
           /\ last.tr[i + 1].op = "gpiod_set_value"

\* C12: lg_panel_unprepare() and lg_panel_disable() return 0, make no
\* leaf call (no DCS write, no power-off, no backlight change) and leave
\* prepared, enabled and first_enable, and all hardware state, unchanged.
C12_UnprepareDisableNoop ==
    [][ last'.op \in {"lg_panel_unprepare", "lg_panel_disable"} =>
            /\ last'.ret = 0
            /\ last'.tr = <<>>
            /\ UNCHANGED <<prepared, enabled, first_enable, brightness,
                           reset_gpio, enable_count, load, pin, props,
                           powered>> ]_vars

\* lg_panel_unprepare() was called on a prepared and enabled panel
C12_Witness ==
    /\ last.op = "lg_panel_unprepare" /\ last.ret = 0
    /\ prepared /\ enabled /\ enable_count > 0

\* the request carries the core frame-buffer-blank flag (bit 1 of state)
CoreBlankFlag == props.state \in {2, 3}

\* the last call was update_status and made exactly one leaf call, the
\* brightness write, whose value is v
WroteBrightness(v) ==
    /\ Len(last.tr) = 1
    /\ last.tr[1].op = "mipi_dsi_dcs_set_display_brightness"
    /\ last.tr[1].a = v

\* C13: when the request's power state is not unblanked or the core
\* frame-buffer-blank flag is set, lg_panel_backlight_update_status()
\* writes the brightness value 0, whatever brightness is requested.
C13_BlankedWritesZero ==
    (/\ last.op = "lg_panel_backlight_update_status"
     /\ (props.power # 0 \/ CoreBlankFlag))
    => WroteBrightness(0) /\ brightness = 0

\* a request for a non-zero brightness with only the core flag set
C13_Witness ==
    /\ last.op = "lg_panel_backlight_update_status"
    /\ props.power = 0 /\ props.fb_blank = 0 /\ props.state = 2
    /\ props.brightness = 200 /\ last.ret = 0

\* C14 as stated: with the power state unblanked and the core flag clear
\* the value written is the requested brightness, whatever the fb_blank
\* field holds.
C14_UnblankedWritesRequested ==
    (/\ last.op = "lg_panel_backlight_update_status"
     /\ props.power = 0 /\ ~CoreBlankFlag)
    => WroteBrightness(props.brightness)

\* C14 as amended: with the power state unblanked, the fb_blank field
\* unblanked and the core flag clear, the value written is exactly the
\* requested brightness; with fb_blank not unblanked it is 0; every call
\* makes exactly one brightness write and returns what that write returned.
C14_UnblankedWritesRequestedAmended ==
    (last.op = "lg_panel_backlight_update_status")
    => /\ Len(last.tr) = 1
       /\ last.tr[1].op = "mipi_dsi_dcs_set_display_brightness"
       /\ last.ret = last.tr[1].ret
       /\ (props.power = 0 /\ ~CoreBlankFlag /\ props.fb_blank = 0)
              => WroteBrightness(props.brightness)
       /\ (props.fb_blank # 0) => WroteBrightness(0)

\* a request for brightness 200, not blanked, whose write failed, and whose
\* state has the BL_CORE_SUSPENDED bit set
C14_Witness ==
    /\ last.op = "lg_panel_backlight_update_status"
    /\ props.power = 0 /\ props.fb_blank = 0 /\ props.state = 1
    /\ props.brightness = 200
    /\ WroteBrightness(200) /\ last.ret < 0

\* C17: lg_panel_backlight_get_brightness() makes one brightness read; on
\* success it returns the low byte of the value read, a value in 0..255;
\* on failure it returns the error of the read.
C17_GetBrightnessMasked ==
    (last.op = "lg_panel_backlight_get_brightness")
    => /\ Len(last.tr) = 1
       /\ last.tr[1].op = "mipi_dsi_dcs_get_display_brightness"
       /\ IF last.tr[1].ret < 0
          THEN last.ret = last.tr[1].ret
          ELSE /\ last.ret \in 0..255
               /\ \E q \in 0..255 : last.tr[1].a = 256 * q + last.ret

\* a read of 0x1234 returned 0x34
C17_Witness ==
    /\ last.op = "lg_panel_backlight_get_brightness"
    /\ Len(last.tr) = 1 /\ last.tr[1].a = 4660 /\ last.ret = 52

\* same call with the same arguments, whatever it returned
SameCall(e, x) == e.op = x.op /\ e.a = x.a /\ e.b = x.b /\ e.data = x.data

\* the three edges of the reset pulse with the sleep after each
ExpectedPulse ==
    << Ev("gpiod_set_value", 1, 0, <<>>, 0),
       Ev("usleep_range", 30000, 10000, <<>>, 0),
       Ev("gpiod_set_value", 0, 0, <<>>, 0),
       Ev("usleep_range", 30000, 2000, <<>>, 0),
       Ev("gpiod_set_value", 1, 0, <<>>, 0),
       Ev("usleep_range", 30000, 10000, <<>>, 0) >>

ExpectedPowerOn ==
    << Ev("regulator_set_load", 1700000, 0, <<>>, 0),
       Ev("regulator_bulk_enable", 1, 0, <<>>, 0),
       Ev("pinctrl_select_state", 1, 0, <<>>, 0) >> \o ExpectedPulse

ExpectedPowerOff ==
    << Ev("gpiod_set_value", 0, 0, <<>>, 0),
       Ev("pinctrl_select_state", 0, 0, <<>>, 0),
       Ev("regulator_set_load", 100, 0, <<>>, 0),
       Ev("regulator_bulk_disable", 1, 0, <<>>, 0) >>

ExpectedReset ==
    << Ev("regulator_set_load", 1700000, 0, <<>>, 0),
       Ev("regulator_bulk_enable", 1, 0, <<>>, 0),
       Ev("regulator_set_load", 100, 0, <<>>, 0),
       Ev("regulator_bulk_disable", 1, 0, <<>>, 0) >> \o ExpectedPulse

\* trace tr makes the calls of want in order; a call that failed is the
\* last one made and its result is ret, otherwise all are made and ret is 0
StopsAtFirstFailure(tr, want, ret) ==
    /\ Len(tr) <= Len(want)
    /\ \A i \in DOMAIN tr : SameCall(tr[i], want[i])
    /\ IF Failed(tr) = {}
       THEN Len(tr) = Len(want) /\ ret = 0
       ELSE Failed(tr) = {Len(tr)} /\ ret = tr[Len(tr)].ret

\* C15 as stated: lg_panel_power_off() makes all four of its calls (reset
\* low, suspend pin state, disable load, bulk disable) whether or not one
\* of them fails, and returns the result of the first that failed.
C15_PowerOffBestEffort ==
    (last.op = "lg_panel_power_off")
    => /\ Len(last.tr) = Len(ExpectedPowerOff)
       /\ \A i \in DOMAIN last.tr : SameCall(last.tr[i], ExpectedPowerOff[i])
       /\ \A i \in Failed(last.tr) :
              (\A j \in Failed(last.tr) : i <= j) => last.ret = last.tr[i].ret

\* the last call came straight after a lg_panel_power_on() in which no
\* leaf call failed, and none of its own failed
AfterPowerOn ==
    /\ last.prev.op = "lg_panel_power_on" /\ last.prev.ret = 0
    /\ Failed(last.tr) = {}

\* C16 as stated: after a fault-free lg_panel_power_on();
\* lg_panel_power_off() the rails are back at their count with the disable
\* load, and power-off has driven reset low and then high, leaving it high.
C16_PowerCycleEndsAsserted ==
    (last.op = "lg_panel_power_off" /\ AfterPowerOn)
    => /\ enable_count = last.prev.po[1]
       /\ load = regulator_disable_loads[1]
       /\ reset_gpio = 1

\* C16 as amended: after a fault-free lg_panel_power_on();
\* lg_panel_power_off() every rail enabled by power-on is disabled again
\* with its disable load set, the suspend pin state is selected, and
\* power-off has driven the reset line low once and never high, so the
\* line ends low.
C16_PowerCycleEndsLow ==
    (last.op = "lg_panel_power_off" /\ AfterPowerOn)
    => /\ enable_count = last.prev.po[1]
       /\ load = regulator_disable_loads[1]
       /\ pin = "suspend"
       /\ last.tr = ExpectedPowerOff
       /\ reset_gpio = 0

\* a fault-free power-off straight after a fault-free power-on that began
\* with the rails off
C16_Witness ==
    /\ last.op = "lg_panel_power_off" /\ AfterPowerOn
    /\ Len(last.tr) = 4
    /\ last.prev.po = <<0>> /\ enable_count = 0 /\ load = 100

\* C18: lg_panel_power_on() sets the enable load, bulk-enables, selects the
\* active pin state and pulses reset high, low, high with a sleep after
\* each edge, in this order; a failing load, bulk enable or pin selection
\* is the last call made, its error is returned, reset is not touched and
\* rails already enabled stay enabled.
C18_PowerOnOrder ==
    [][ Returns("lg_panel_power_on") =>
            /\ StopsAtFirstFailure(last'.tr, ExpectedPowerOn, last'.ret)
            /\ Failed(last'.tr) # {} =>
                   /\ Len(last'.tr) <= 3
                   /\ reset_gpio' = run.c0.reset_gpio
                   /\ enable_count' = run.c0.enable_count
                          + (IF Len(last'.tr) = 3 THEN 1 ELSE 0)
            /\ Failed(last'.tr) = {} =>
                   /\ enable_count' = run.c0.enable_count + 1
                   /\ reset_gpio' = 1 ]_vars

\* the pin-state selection failed after the rails were enabled, with the
\* reset line low from an earlier power-off
C18_Witness ==
    /\ last.op = "lg_panel_power_on"
    /\ Len(last.tr) = 3 /\ last.tr[3].ret < 0 /\ last.ret = last.tr[3].ret
    /\ enable_count = 1 /\ reset_gpio = 0

\* C19: panel_reset_at_beginning() sets the enable load, bulk-enables, sets
\* the disable load, bulk-disables and pulses reset high, low, high with a
\* sleep after each edge, in this order; a failing load or bulk call is the
\* last call made and its error is returned, so a failure after the bulk
\* enable leaves the rails enabled; on success the rails are as before and
\* reset is high.
C19_ResetAtBeginningOrder ==
    [][ Returns("panel_reset_at_beginning") =>
            /\ StopsAtFirstFailure(last'.tr, ExpectedReset, last'.ret)
            /\ Failed(last'.tr) # {} =>
                   /\ Len(last'.tr) <= 4
                   /\ reset_gpio' = run.c0.reset_gpio
                   /\ enable_count' = run.c0.enable_count
                          + (IF Len(last'.tr) >= 3 THEN 1 ELSE 0)
            /\ Failed(last'.tr) = {} =>
                   /\ enable_count' = run.c0.enable_count
                   /\ load' = regulator_disable_loads[1]
                   /\ reset_gpio' = 1 ]_vars

\* the disable load failed after the bulk enable: the rails stay enabled
C19_Witness ==
    /\ last.op = "panel_reset_at_beginning"
    /\ Len(last.tr) = 3 /\ last.tr[3].ret < 0 /\ last.ret = last.tr[3].ret
    /\ enable_count = 1 /\ load = 1700000

\* the calls of a whole lg_panel_prepare(), none failing: the settle
\* delay, power-on, the three setup calls, the init writes, and the tail
\* from sleep-exit to the last wait
ExpectedPrepare ==
    << Ev("usleep_range", 5000, 5000, <<>>, 0) >>
    \o ExpectedPowerOn
    \o << Ev("mipi_dsi_dcs_set_tear_on", 0, 0, <<>>, 0),
          Ev("mipi_dsi_dcs_set_page_address", 0, 3119, <<>>, 0),
          Ev("mipi_dsi_dcs_set_display_brightness", 255, 0, <<>>, 0) >>
    \o [i \in DOMAIN init_write_seqs |->
           Ev("mipi_dsi_dcs_write_buffer", 0, Len(init_write_seqs[i]),
              init_write_seqs[i], 0)]
    \o << Ev("mipi_dsi_dcs_exit_sleep_mode", 0, 0, <<>>, 0),
          Ev("msleep", 256, 0, <<>>, 0),
          Ev("mipi_dsi_dcs_write", 7, 0, <<>>, 0),
          Ev("mipi_dsi_dcs_write_buffer", 0, 3, <<189, 1, 5>>, 0),
          Ev("mipi_dsi_dcs_set_display_on", 0, 0, <<>>, 0),
          Ev("usleep_range", 5000, 6000, <<>>, 0),
          Ev("msleep", 120, 0, <<>>, 0) >>

\* position of the first call named op in trace tr
FirstAt(tr, op) ==
    CHOOSE i \in DOMAIN tr :
        tr[i].op = op /\ \A j \in 1..(i - 1) : tr[j].op # op

\* in trace tr display-on is the last DCS command, sleep-exit comes before
\* it, and a wait of at least 256 ms lies between the two
SleepExitThenDisplayOn(tr) ==
    LET on  == FirstAt(tr, "mipi_dsi_dcs_set_display_on")
        out == FirstAt(tr, "mipi_dsi_dcs_exit_sleep_mode")
    IN  /\ \A i \in DcsAt(tr) : i <= on
        /\ out < on
        /\ \E i \in (out + 1)..(on - 1) :
               tr[i].op = "msleep" /\ tr[i].a >= 256
        /\ Len(tr) = on + 2
        /\ tr[on + 1].op = "usleep_range" /\ tr[on + 1].a >= 5000
        /\ tr[on + 2].op = "msleep" /\ tr[on + 2].a >= 120

\* C20: a fault-free lg_panel_prepare() entered with prepared false makes
\* its calls in this order: settle delay, power-on, tear-on, page address,
\* brightness, the init writes, sleep-exit, a 256 ms wait, the compression
\* mode write, the black-frame write, display-on, waits of 5 ms and 120 ms;
\* prepared is true afterwards, and it becomes true in no call that did
\* not make all of them.
C20_PrepareOrder ==
    [][ /\ (Returns("lg_panel_prepare") /\ ~run.c0.prepared) =>
               /\ Failed(last'.tr) = {} =>
                      /\ last'.tr = ExpectedPrepare
                      /\ SleepExitThenDisplayOn(last'.tr)
                      /\ prepared'
               /\ prepared' => last'.tr = ExpectedPrepare
        /\ (~prepared /\ prepared') => run'.tr = ExpectedPrepare ]_vars

\* a completed prepare: 64 calls, display-on the third from the end
C20_Witness ==
    /\ last.op = "lg_panel_prepare" /\ last.ret = 0 /\ prepared
    /\ Failed(last.tr) = {}
    /\ Len(last.tr) = 64
    /\ last.tr[62].op = "mipi_dsi_dcs_set_display_on"
    /\ last.tr[58].op = "mipi_dsi_dcs_exit_sleep_mode"

\* C21: lg_panel_enable() called with enabled true makes no call, changes
\* nothing and returns 0; called with enabled false it enables the
\* backlight (one brightness write): when that fails its error is returned
\* and enabled stays false, when it succeeds enabled becomes true and 0 is
\* returned. No call other than the brightness write reaches the command
\* channel (no picture parameter set), and prepared is never changed.
C21_EnableGuarded ==
    [][ (last'.op = "lg_panel_enable") =>
            /\ prepared' = prepared
            /\ \A i \in DOMAIN last'.tr :
                   last'.tr[i].op = "mipi_dsi_dcs_set_display_brightness"
            /\ IF enabled
               THEN /\ last'.tr = <<>> /\ last'.ret = 0
                    /\ UNCHANGED <<enabled, brightness, props, reset_gpio,
                                   enable_count, load, pin, powered>>
               ELSE /\ Len(last'.tr) = 1
                    /\ last'.ret = last'.tr[1].ret
                    /\ enabled' = (last'.tr[1].ret = 0) ]_vars

\* an enable whose backlight write failed: the error is returned and the
\* panel is not enabled
C21_Witness ==
    /\ last.op = "lg_panel_enable" /\ last.ret < 0 /\ ~enabled
    /\ Len(last.tr) = 1 /\ last.tr[1].ret = last.ret

\* the table handed to the last send_mipi_cmds() is NULL, or has no entry
\* before its terminator
EmptyOrMissing(b) == b.null \/ NumEntries(b) = 0

\* positions of the entries of len 1 of table b
ShortEntries(b) ==
    IF b.null THEN {} ELSE { i \in 1..NumEntries(b) : Len(b.e[i]) = 1 }

\* C23 as stated: send_mipi_cmds() returns an error and makes no write
\* when the table is NULL or empty; it returns an error when the table
\* holds an entry of len 1 and makes no write for that entry (one write
\* per entry before it at most); and no write is ever passed a payload
\* length computed from a len below 2.
C23_MalformedTableRejected ==
    (last.op = "send_mipi_cmds")
    => /\ EmptyOrMissing(last.arg) => last.ret < 0 /\ last.tr = <<>>
       /\ \A i \in ShortEntries(last.arg) :
              /\ last.ret < 0
              /\ Cardinality({ j \in DOMAIN last.tr :
                                 last.tr[j].op = "mipi_dsi_dcs_write" }) < i
       /\ \A j \in DOMAIN last.tr :
              last.tr[j].op = "mipi_dsi_dcs_write" => last.tr[j].b >= 0

\* C24: prepared and enabled never go from true to false, whatever
\* sequence of prepare, unprepare, enable, disable, remove and shutdown is
\* called on the bound device; a lg_panel_prepare() called with prepared
\* true makes no call, returns 0 and leaves the rails, the pin state and
\* the reset line alone, and a lg_panel_enable() called with enabled true
\* makes no call and returns 0.
C24_FlagsNeverCleared ==
    [][ /\ prepared => prepared'
        /\ enabled => enabled'
        /\ (prepared /\ PrepareStep) =>
               /\ ~run'.more /\ run'.tr = <<>>
               /\ UNCHANGED <<reset_gpio, enable_count, load, pin>>
        /\ (Returns("lg_panel_prepare") /\ run.c0.prepared) =>
               /\ last'.tr = <<>> /\ last'.ret = 0
               /\ UNCHANGED <<reset_gpio, enable_count, load, pin>>
        /\ (enabled /\ last'.op = "lg_panel_enable") =>
               /\ last'.tr = <<>> /\ last'.ret = 0 ]_vars

\* the second lg_panel_prepare() of a prepared and enabled panel did
\* nothing
C24_Witness ==
    /\ last.op = "lg_panel_prepare" /\ last.tr = <<>> /\ last.ret = 0
    /\ n_prepare = 2 /\ prepared /\ enabled /\ enable_count = 1

\* a trace of a call that went through lg_panel_power_off(): it bulk
\* disables the rails and selects the suspend pin state
PowersOff(tr) ==
    \E i \in DOMAIN tr :
        \/ tr[i].op = "regulator_bulk_disable"
        \/ tr[i].op = "pinctrl_select_state" /\ tr[i].a = 0

\* the trace holds a regulator_bulk_enable() that succeeded
RailsEnabledIn(tr) ==
    \E i \in DOMAIN tr : tr[i].op = "regulator_bulk_enable" /\ tr[i].ret = 0

\* C25: no call of prepare, unprepare, enable, disable, remove or shutdown
\* goes through lg_panel_power_off(); the number of outstanding rail
\* enables never decreases; a lg_panel_prepare() that fails after its bulk
\* enable leaves one more enable outstanding; panel_remove() and
\* panel_shutdown() leave the enables, the load and the pin state as they
\* were.
C25_NeverPoweredOff ==
    [][ /\ ~PowersOff(last'.tr) /\ ~PowersOff(run'.tr)
        /\ enable_count' >= enable_count
        /\ (/\ Returns("lg_panel_prepare") /\ last'.ret < 0
            /\ RailsEnabledIn(last'.tr)) =>
               enable_count' = run.c0.enable_count + 1
        /\ (last'.op \in {"panel_remove", "panel_shutdown"}) =>
               UNCHANGED <<enable_count, load, pin, reset_gpio>> ]_vars

\* the device was removed with two enables outstanding and the active pin
\* state selected
C25_Witness ==
    /\ last.op = "panel_remove" /\ ~bound /\ ~registered
    /\ enable_count = 2 /\ pin = "active" /\ load = 1700000

\* the resources the panel callbacks rely on
Required == {"supplies", "reset_gpio", "pinctrl", "active", "suspend"}

\* the lookups of the last panel_probe() that yielded no object
Unavailable(tr) ==
    { i \in DOMAIN tr :
        /\ tr[i].op \in {"devm_regulator_bulk_get", "devm_gpiod_get",
                         "devm_pinctrl_get",
                         "pinctrl_lookup_state:panel_active",
                         "pinctrl_lookup_state:panel_suspend"}
        /\ tr[i].a = 0 }

\* C22 as stated: a panel_probe() in which the rails, the reset GPIO, the
\* pin-control handle or one of the two pin states did not come back as an
\* object (an error pointer or NULL) returns an error and does not call
\* drm_panel_add(); every registered panel holds an object for each: the
\* panel of the struct panel_info in use does, and no panel is on the list
\* whose struct a later panel_probe() has replaced (it has no struct to
\* hold them in).
C22_RegisteredHoldsHandles ==
    /\ registered => \A k \in Required : handles[k] = Valid
    /\ stale = 0
    /\ (last.op = "panel_probe" /\ Unavailable(last.tr) # {})
           => /\ last.ret < 0
              /\ \A i \in DOMAIN last.tr : last.tr[i].op # "drm_panel_add"

\* the part of C22 the code keeps: a lookup that yields an error pointer
\* or a negative value ends panel_probe() with that value before
\* drm_panel_add(), and a handle of a registered panel that is no object
\* is NULL
ErrorPointersRefused ==
    /\ registered => \A k \in Required : handles[k] \in {Valid, Null}
    /\ (last.op = "panel_probe")
           => \A i \in Unavailable(last.tr) :
                  last.tr[i].ret < 0
                      => /\ last.ret = last.tr[i].ret
                         /\ \A j \in DOMAIN last.tr :
                                last.tr[j].op # "drm_panel_add"

===========================================================================
